---- MODULE Spec2Model ----
(***************************************************************************)
(* Model of heye.py: a command line tool that sends an image and a prompt *)
(* to a vision language model and streams the reply, remembering its      *)
(* settings in the JSON file ~/.heye between invocations.                  *)
(*                                                                         *)
(* Text is modelled as a sequence of pieces, each a string of one or more  *)
(* characters; every character an operation looks at (a quote, a           *)
(* backslash, a dot, the letters of a file extension) is a piece of its    *)
(* own.  An optional value is a sequence of length 0 (Python None) or 1.   *)
(***************************************************************************)
EXTENDS Naturals, Sequences, FiniteSets, TLC

VARIABLES
    file,               \* the config file ~/.heye, shared by all invocations
    pc,                 \* per invocation: its position in main()
    argv,               \* per invocation: the parsed command line (args)
    environ,            \* per invocation: os.environ['DASHSCOPE_API_KEY']
    image_exists,       \* per invocation: os.path.exists(args.path)
    loaded,             \* per invocation: what load_config() returned
    config,             \* per invocation: the local `config` of _setup_configuration
    settings,           \* per invocation: self.base_url, api_token, model_name, query_text
    writes,             \* per invocation: how many times it opened the config file for writing
    saved,              \* per invocation: "no" | "ok" | "failed", how save_config ended
    warned,             \* per invocation: the warning of save_config was printed
    called,             \* per invocation: the chat completion request was issued
    consumed,           \* per invocation: the deltas of the chunks taken from the stream
    printed,            \* per invocation: the text the streaming loop printed
    assistant_content,  \* per invocation: the accumulator of process_query
    outcome,            \* per invocation: how main() ended: state, exception, message, exit code
    messages,           \* per invocation: the request process_query built
    runs,               \* per invocation slot: how many invocations were started in it
    overlap,            \* history: two invocations were running at the same time
    past                \* history of the overrides supplied, the saves and the runs

vars == <<file, pc, argv, environ, image_exists, loaded, config, settings, writes,
          saved, warned, called, consumed, printed, assistant_content, outcome,
          messages, runs, overlap, past>>

-----------------------------------------------------------------------------
(* Python values *)

None == <<>>
Some(v) == <<v>>
IsNone(o) == o = <<>>
Val(o) == o[1]

\* truth value of an optional string: None and "" are falsy
Truthy(o) == ~IsNone(o) /\ Val(o) # <<>>

\* Python's `a or b`
Or(a, b) == IF Truthy(a) THEN a ELSE b

RECURSIVE Join(_)
\* " ".join(words)
Join(words) ==
    IF words = <<>> THEN <<>>
    ELSE IF Len(words) = 1 THEN words[1]
    ELSE words[1] \o <<" ">> \o Join(Tail(words))

-----------------------------------------------------------------------------
(* Python dict, as the sequence of its <<key, value>> items in insertion order *)

EmptyDict == <<>>

DictKeys(d) == {d[i][1] : i \in 1..Len(d)}

DictHas(d, k) == k \in DictKeys(d)

DictIndex(d, k) == CHOOSE i \in 1..Len(d) : d[i][1] = k

\* d[k]
DictItem(d, k) == d[DictIndex(d, k)][2]

\* d.get(k, default), an optional value
DictGet(d, k, default) == IF DictHas(d, k) THEN Some(DictItem(d, k)) ELSE default

\* d[k] = v: an existing key keeps its place, a new key goes last
DictSet(d, k, v) ==
    IF DictHas(d, k) THEN [d EXCEPT ![DictIndex(d, k)] = <<k, v>>]
    ELSE Append(d, <<k, v>>)

\* what load_config returns: a dict, or another JSON value (a list, a number, ...)
PyDict(items) == [type |-> "dict", items |-> items]
PyOther == [type |-> "other", items |-> <<>>]

-----------------------------------------------------------------------------
(* JSON text *)

Quote == "\""
Backslash == "\\"
\* a lone surrogate, as argv decoding (surrogateescape) yields for a byte that is
\* not UTF-8: it cannot be encoded as UTF-8
Surrogate == "<U+DCFF>"

\* mutant of Escape: quotes and backslashes written as they are
NoEscape(s) == s

RECURSIVE Escape(_)
\* the body of the JSON string literal json.dump(ensure_ascii=False) writes for s
Escape(s) ==
    IF s = <<>> THEN <<>>
    ELSE (IF Head(s) \in {Quote, Backslash} THEN <<Backslash, Head(s)>> ELSE <<Head(s)>>)
         \o Escape(Tail(s))

RECURSIVE Unescape(_)
\* the string a JSON string literal with body lit stands for; None when lit is
\* no literal (a bare quote, a dangling or unknown escape)
Unescape(lit) ==
    IF lit = <<>> THEN Some(<<>>)
    ELSE IF Head(lit) = Quote THEN None
    ELSE IF Head(lit) = Backslash THEN
        IF Len(lit) >= 2 /\ lit[2] \in {Quote, Backslash}
        THEN LET rest == Unescape(Tail(Tail(lit)))
             IN  IF IsNone(rest) THEN None ELSE Some(<<lit[2]>> \o Val(rest))
        ELSE None
    ELSE LET rest == Unescape(Tail(lit))
         IN  IF IsNone(rest) THEN None ELSE Some(<<Head(lit)>> \o Val(rest))

\* the codec can write s as UTF-8
Encodable(s) == \A i \in 1..Len(s) : s[i] # Surrogate

\* the config file
Absent == [kind |-> "absent", members |-> <<>>]
\* exists, but opening or reading it raises IOError
Unreadable == [kind |-> "unreadable", members |-> <<>>]
\* text that is no JSON document (empty, truncated, not UTF-8, ...)
Invalid == [kind |-> "invalid", members |-> <<>>]
\* a JSON document whose top level is no object, such as []
NonObject == [kind |-> "nonobject", members |-> <<>>]
\* a JSON object, as the sequence of its members in file order
Object(members) == [kind |-> "object", members |-> members]

Member(k, lit) == [key |-> k, lit |-> lit]

RECURSIVE ParseMembers(_, _)
\* json.load on the members of an object: the dict built so far is acc; a later
\* member with the same key replaces the value; None when a literal is malformed
ParseMembers(members, acc) ==
    IF members = <<>> THEN Some(acc)
    ELSE LET v == Unescape(Head(members).lit)
         IN  IF IsNone(v) THEN None
             ELSE ParseMembers(Tail(members), DictSet(acc, Head(members).key, Val(v)))

\* json.load(f): [raised, value]
json_load(f) ==
    IF f.kind = "invalid" THEN [raised |-> TRUE, value |-> PyOther]
    ELSE IF f.kind = "nonobject" THEN [raised |-> FALSE, value |-> PyOther]
    ELSE LET d == ParseMembers(f.members, EmptyDict)
         IN  IF IsNone(d) THEN [raised |-> TRUE, value |-> PyOther]
             ELSE [raised |-> FALSE, value |-> PyDict(Val(d))]

\* json.dump(config, f, indent=2, ensure_ascii=False): the document written
json_dump(d) == Object([i \in 1..Len(d) |-> Member(d[i][1], Escape(d[i][2]))])

\* every string of the dict can be written by the UTF-8 codec
DictEncodable(d) == \A i \in 1..Len(d) : Encodable(d[i][2])

\* Eye.load_config
load_config(f) ==
    IF f.kind = "absent" THEN PyDict(EmptyDict)
    ELSE IF f.kind = "unreadable" THEN PyDict(EmptyDict)
    ELSE LET r == json_load(f)
         IN  IF r.raised THEN PyDict(EmptyDict) ELSE r.value

-----------------------------------------------------------------------------
(* Image checks *)

UpperCase == <<"A","B","C","D","E","F","G","H","I","J","K","L","M",
               "N","O","P","Q","R","S","T","U","V","W","X","Y","Z">>
LowerCase == <<"a","b","c","d","e","f","g","h","i","j","k","l","m",
               "n","o","p","q","r","s","t","u","v","w","x","y","z">>

\* str.lower() on one character
LowerChar(c) ==
    IF \E i \in 1..Len(UpperCase) : UpperCase[i] = c
    THEN LowerCase[CHOOSE i \in 1..Len(UpperCase) : UpperCase[i] = c]
    ELSE c

\* str.lower()
lower(s) == [i \in 1..Len(s) |-> LowerChar(s[i])]

\* s.endswith(suffix)
endswith(s, suffix) ==
    /\ Len(s) >= Len(suffix)
    /\ SubSeq(s, Len(s) - Len(suffix) + 1, Len(s)) = suffix

supported_extensions ==
    { <<".","p","n","g">>, <<".","j","p","g">>, <<".","j","p","e","g">>,
      <<".","b","m","p">>, <<".","w","e","b","p">>, <<".","t","i","f","f">>,
      <<".","t","i","f">> }

NoError == [exc |-> "none", msg |-> <<>>]
Error(exc, msg) == [exc |-> exc, msg |-> msg]

\* mutant of validate_image: the extension compared without lower()
validate_image_case_sensitive(image_path, exists) ==
    IF ~exists
    THEN Error("FileNotFoundError", image_path \o <<" does not exist.">>)
    ELSE IF ~(\E e \in supported_extensions : endswith(image_path, e))
    THEN Error("ValueError", image_path \o
               <<" is not a valid image file. Supported formats: PNG, JPG, JPEG, BMP, WEBP, TIFF, TIF">>)
    ELSE NoError

\* Eye.validate_image: the exception it raises, NoError when it returns
validate_image(image_path, exists) ==
    IF ~exists
    THEN Error("FileNotFoundError", image_path \o <<" does not exist.">>)
    ELSE IF ~(\E e \in supported_extensions : endswith(lower(image_path), e))
    THEN Error("ValueError", image_path \o
               <<" is not a valid image file. Supported formats: PNG, JPG, JPEG, BMP, WEBP, TIFF, TIF">>)
    ELSE NoError

RECURSIVE LastPart(_)
\* s.split('.')[-1]: the text after the last dot, all of s when it has no dot
LastPart(s) ==
    IF s = <<>> THEN <<>>
    ELSE IF s[Len(s)] = "." THEN <<>>
    ELSE LastPart(SubSeq(s, 1, Len(s) - 1)) \o <<s[Len(s)]>>

content_types ==
    { << <<"p","n","g">>, "image/png" >>,  << <<"j","p","g">>, "image/jpeg" >>,
      << <<"j","p","e","g">>, "image/jpeg" >>, << <<"b","m","p">>, "image/bmp" >>,
      << <<"w","e","b","p">>, "image/webp" >>, << <<"t","i","f","f">>, "image/tiff" >>,
      << <<"t","i","f">>, "image/tiff" >> }

\* Eye.get_image_content_type
get_image_content_type(image_path) ==
    LET extension == LastPart(lower(image_path))
    IN  IF \E ct \in content_types : ct[1] = extension
        THEN (CHOOSE ct \in content_types : ct[1] = extension)[2]
        ELSE "image/png"

-----------------------------------------------------------------------------
(* Configuration *)

Keys == {"base_url", "api_token", "model_name", "query_text"}

SUPPORTED_MODELS == {<<"qwen3-vl-plus">>, <<"qwen3-vl-flash">>, <<"qwen-vl-ocr-latest">>}

DEFAULT_BASE_URL == <<"https://dashscope.aliyuncs.com/compatible-mode/v1">>
DEFAULT_MODEL_NAME == <<"qwen3-vl-plus">>
DEFAULT_QUERY_TEXT == <<"What scene is depicted in the image?">>

\* parse_args: the command line words cmd as the namespace args; the query words
\* are joined with spaces, no word at all is None
parse_args(cmd) ==
    [path       |-> cmd.path,
     query      |-> IF cmd.query = <<>> THEN None ELSE Some(Join(cmd.query)),
     model      |-> cmd.model,
     base_url   |-> cmd.base_url,
     api_token  |-> cmd.api_token]

\* the override args gives for a key of the config
Override(args, k) ==
    CASE k = "base_url"   -> args.base_url
      [] k = "api_token"  -> args.api_token
      [] k = "model_name" -> args.model
      [] k = "query_text" -> args.query

\* the command line gives a value for some key of the config
HasOverride(args) == \E k \in Keys : ~IsNone(Override(args, k))

\* mutant of SetIfNotNone: config.setdefault(k, x), the persisted value wins
SetIfAbsent(d, k, o) == IF IsNone(o) \/ DictHas(d, k) THEN d ELSE DictSet(d, k, Val(o))

\* `if x is not None: config[k] = x`
SetIfNotNone(d, k, o) == IF IsNone(o) THEN d ELSE DictSet(d, k, Val(o))

\* mutant of Merged: the default base_url is put into the config
MergedWithDefaults(d, args) ==
    LET m == SetIfNotNone(
               SetIfNotNone(
                 SetIfNotNone(
                   SetIfNotNone(d, "base_url", args.base_url),
                   "api_token", args.api_token),
                 "model_name", args.model),
               "query_text", args.query)
    IN  IF DictHas(m, "base_url") THEN m ELSE DictSet(m, "base_url", DEFAULT_BASE_URL)

\* mutant of Merged: the overrides are put into a new dict, not the loaded one
MergedFromScratch(d, args) ==
    SetIfNotNone(
      SetIfNotNone(
        SetIfNotNone(
          SetIfNotNone(EmptyDict, "base_url", args.base_url),
          "api_token", args.api_token),
        "model_name", args.model),
      "query_text", args.query)

\* _setup_configuration, "Update config if new values provided"
Merged(d, args) ==
    SetIfNotNone(
      SetIfNotNone(
        SetIfNotNone(
          SetIfNotNone(d, "base_url", args.base_url),
          "api_token", args.api_token),
        "model_name", args.model),
      "query_text", args.query)

\* mutant of AnyOverride: the config is saved in every run
AlwaysSave(args) == TRUE

\* mutant of AnyOverride: the condition forgets model_name and query_text
OnlyEndpointOverride(args) ==
    \/ ~IsNone(args.base_url)
    \/ ~IsNone(args.api_token)

\* _setup_configuration, the condition of "Save config if any new values were provided"
AnyOverride(args) ==
    \/ ~IsNone(args.base_url)
    \/ ~IsNone(args.api_token)
    \/ ~IsNone(args.model)
    \/ ~IsNone(args.query)

\* _setup_configuration, "Use config values or defaults"; env is
\* os.getenv('DASHSCOPE_API_KEY')
Resolved(d, args, env) ==
    [base_url   |-> DictGet(d, "base_url", Some(DEFAULT_BASE_URL)),
     api_token  |-> DictGet(d, "api_token", env),
     model_name |-> Or(args.model, DictGet(d, "model_name", Some(DEFAULT_MODEL_NAME))),
     query_text |-> Or(args.query, DictGet(d, "query_text", Some(DEFAULT_QUERY_TEXT)))]

-----------------------------------------------------------------------------
(* main(): one invocation of the tool per slot p, statement by statement *)

Procs == DOMAIN pc

NoArgs == [path |-> <<>>, query |-> None, model |-> None, base_url |-> None,
           api_token |-> None]
NoSettings == [base_url |-> None, api_token |-> None, model_name |-> None,
               query_text |-> None]
Running == [exc |-> "none", line |-> <<>>, exit_code |-> None]
Succeeded == [exc |-> "none", line |-> <<>>, exit_code |-> Some(0)]

\* the except clauses of main(): the line printed and exit(1)
Caught(exc, msg) ==
    IF exc = "FileNotFoundError"
    THEN [exc |-> exc, line |-> <<"Error: ">> \o msg, exit_code |-> Some(1)]
    ELSE IF exc \in {"ValueError", "UnicodeEncodeError"}
    THEN [exc |-> exc, line |-> <<"Error: ">> \o msg, exit_code |-> Some(1)]
    ELSE [exc |-> exc, line |-> <<"An unexpected error occurred: ">> \o msg,
          exit_code |-> Some(1)]

Terminated(p) == pc[p] \in {"Done", "Failed"}
Active(p) == pc[p] \notin {"start", "Done", "Failed"}
Unstarted(p) == pc[p] = "start"

\* an exception leaves the invocation through main()'s handlers
Raise(p, exc, msg) ==
    /\ pc' = [pc EXCEPT ![p] = "Failed"]
    /\ outcome' = [outcome EXCEPT ![p] = Caught(exc, msg)]

streamVars == <<consumed, printed, assistant_content>>
inputVars == <<argv, environ, image_exists, runs, overlap>>

\* a new process: main() calls parse_args() and enters Eye.__init__
\* (Cmds: the command lines, each with `exists`, whether its image path exists)
Invoke(p, Cmds, Envs, limit) ==
    /\ pc[p] = "start"
    /\ runs[p] < limit
    /\ \E cmd \in Cmds, env \in Envs :
        LET args == parse_args(cmd) IN
        /\ argv' = [argv EXCEPT ![p] = args]
        /\ environ' = [environ EXCEPT ![p] = env]
        /\ image_exists' = [image_exists EXCEPT ![p] = cmd.exists]
        /\ past' = [past EXCEPT
                      !.latest = [k \in Keys |->
                                   IF IsNone(Override(args, k)) THEN past.latest[k]
                                   ELSE Override(args, k)],
                      !.pinned = IF HasOverride(args) THEN None ELSE past.pinned]
    /\ pc' = [pc EXCEPT ![p] = "load"]
    /\ runs' = [runs EXCEPT ![p] = @ + 1]
    /\ overlap' = (overlap \/ \E q \in Procs \ {p} : Active(q))
    /\ UNCHANGED <<file, loaded, config, settings, writes, saved, warned, called,
                   outcome, messages, streamVars>>

\* the process is gone, and with it everything but the config file
Exit(p) ==
    /\ Terminated(p)
    /\ pc' = [pc EXCEPT ![p] = "start"]
    /\ argv' = [argv EXCEPT ![p] = NoArgs]
    /\ environ' = [environ EXCEPT ![p] = None]
    /\ image_exists' = [image_exists EXCEPT ![p] = FALSE]
    /\ loaded' = [loaded EXCEPT ![p] = PyDict(EmptyDict)]
    /\ config' = [config EXCEPT ![p] = PyDict(EmptyDict)]
    /\ settings' = [settings EXCEPT ![p] = NoSettings]
    /\ writes' = [writes EXCEPT ![p] = 0]
    /\ saved' = [saved EXCEPT ![p] = "no"]
    /\ warned' = [warned EXCEPT ![p] = FALSE]
    /\ called' = [called EXCEPT ![p] = FALSE]
    /\ consumed' = [consumed EXCEPT ![p] = <<>>]
    /\ printed' = [printed EXCEPT ![p] = <<>>]
    /\ assistant_content' = [assistant_content EXCEPT ![p] = <<>>]
    /\ outcome' = [outcome EXCEPT ![p] = Running]
    /\ messages' = [messages EXCEPT ![p] = <<>>]
    /\ past' = [past EXCEPT !.prev_failed =
                  /\ HasOverride(argv[p])
                  /\ saved[p] = "ok"
                  /\ pc[p] = "Failed"
                  /\ outcome[p].exc \in {"FileNotFoundError", "ValueError", "APIError"}]
    /\ UNCHANGED <<file, runs, overlap>>

\* _setup_configuration: config = self.load_config()
LoadConfig(p) ==
    /\ pc[p] = "load"
    /\ loaded' = [loaded EXCEPT ![p] = load_config(file)]
    /\ config' = [config EXCEPT ![p] = load_config(file)]
    /\ pc' = [pc EXCEPT ![p] = "merge"]
    /\ UNCHANGED <<file, settings, writes, saved, warned, called, outcome, messages,
                   past, streamVars, inputVars>>

\* _setup_configuration: the four `if ... is not None: config[...] = ...`; the
\* first assignment raises TypeError when config is no dict
MergeOverrides(p) ==
    /\ pc[p] = "merge"
    /\ IF AnyOverride(argv[p]) /\ config[p].type # "dict"
       THEN /\ Raise(p, "TypeError", <<"object does not support item assignment">>)
            /\ UNCHANGED config
       ELSE /\ config' = [config EXCEPT ![p] =
                            IF @.type = "dict" THEN PyDict(Merged(@.items, argv[p]))
                            ELSE @]
            /\ pc' = [pc EXCEPT ![p] = IF AnyOverride(argv[p]) THEN "open" ELSE "resolve"]
            /\ UNCHANGED outcome
    /\ UNCHANGED <<file, loaded, settings, writes, saved, warned, called, messages,
                   past, streamVars, inputVars>>

\* save_config: codecs.open(self.config_file, 'w') truncates the file, or raises
\* IOError, which save_config turns into a warning
OpenForWrite(p) ==
    /\ pc[p] = "open"
    /\ \E opened \in BOOLEAN :
        IF opened
        THEN /\ file' = Invalid
             /\ writes' = [writes EXCEPT ![p] = @ + 1]
             /\ pc' = [pc EXCEPT ![p] = "dump"]
             /\ past' = [past EXCEPT !.loaded_at_first_write =
                           IF IsNone(@)
                           THEN Some({q \in Procs : pc[q] \notin {"start", "load"}})
                           ELSE @]
             /\ UNCHANGED <<saved, warned>>
        ELSE /\ saved' = [saved EXCEPT ![p] = "failed"]
             /\ warned' = [warned EXCEPT ![p] = TRUE]
             /\ past' = [past EXCEPT !.save_failed = TRUE]
             /\ pc' = [pc EXCEPT ![p] = "resolve"]
             /\ UNCHANGED <<file, writes>>
    /\ UNCHANGED <<loaded, config, settings, called, outcome, messages, streamVars,
                   inputVars>>

\* save_config: json.dump(config, f, indent=2, ensure_ascii=False) and the close of
\* the file; a string the UTF-8 codec cannot encode raises UnicodeEncodeError, which
\* is no IOError and leaves through main(); an IOError leaves a truncated file
DumpConfig(p) ==
    /\ pc[p] = "dump"
    /\ IF ~DictEncodable(config[p].items)
       THEN /\ file' = Invalid
            /\ saved' = [saved EXCEPT ![p] = "failed"]
            /\ past' = [past EXCEPT !.save_failed = TRUE]
            /\ Raise(p, "UnicodeEncodeError", <<"'utf-8' codec can't encode character">>)
            /\ UNCHANGED warned
       ELSE \E written \in BOOLEAN :
            IF written
            THEN /\ file' = json_dump(config[p].items)
                 /\ saved' = [saved EXCEPT ![p] = "ok"]
                 /\ past' = [past EXCEPT !.pinned =
                               IF \A k \in Keys : ~IsNone(Override(argv[p], k))
                               THEN Some([args |-> argv[p],
                                          file |-> json_dump(config[p].items)])
                               ELSE @]
                 /\ pc' = [pc EXCEPT ![p] = "resolve"]
                 /\ UNCHANGED <<warned, outcome>>
            ELSE /\ file' = Invalid
                 /\ saved' = [saved EXCEPT ![p] = "failed"]
                 /\ warned' = [warned EXCEPT ![p] = TRUE]
                 /\ past' = [past EXCEPT !.save_failed = TRUE]
                 /\ pc' = [pc EXCEPT ![p] = "resolve"]
                 /\ UNCHANGED outcome
    /\ UNCHANGED <<loaded, config, settings, writes, called, messages, streamVars,
                   inputVars>>

\* _setup_configuration: "Use config values or defaults"; config.get raises
\* AttributeError when config is no dict
ResolveSettings(p) ==
    /\ pc[p] = "resolve"
    /\ IF config[p].type # "dict"
       THEN /\ Raise(p, "AttributeError", <<"object has no attribute 'get'">>)
            /\ UNCHANGED settings
       ELSE /\ settings' = [settings EXCEPT ![p] =
                              Resolved(config[p].items, argv[p], environ[p])]
            /\ pc' = [pc EXCEPT ![p] = "client"]
            /\ UNCHANGED outcome
    /\ UNCHANGED <<file, loaded, config, writes, saved, warned, called, messages,
                   past, streamVars, inputVars>>

\* Eye.__init__: self.client = OpenAI(api_key=self.api_token, base_url=...); with
\* api_key None the client falls back on OPENAI_API_KEY and raises OpenAIError
\* when that is not set either
NewClient(p) ==
    /\ pc[p] = "client"
    /\ \E have_key \in (IF IsNone(settings[p].api_token) THEN BOOLEAN ELSE {TRUE}) :
        IF have_key
        THEN pc' = [pc EXCEPT ![p] = "validate"] /\ UNCHANGED outcome
        ELSE Raise(p, "OpenAIError", <<"The api_key client option must be set">>)
    /\ UNCHANGED <<file, loaded, config, settings, writes, saved, warned, called,
                   messages, past, streamVars, inputVars>>

\* process_query: self.validate_image(self.image_path)
ValidateImage(p) ==
    /\ pc[p] = "validate"
    /\ LET r == validate_image(argv[p].path, image_exists[p]) IN
        IF r = NoError
        THEN pc' = [pc EXCEPT ![p] = "encode"] /\ UNCHANGED outcome
        ELSE Raise(p, r.exc, r.msg)
    /\ UNCHANGED <<file, loaded, config, settings, writes, saved, warned, called,
                   messages, past, streamVars, inputVars>>

\* process_query: encode_image, get_image_content_type and the messages list: one
\* user turn, the image as a data URI first, the text prompt second
BuildRequest(p) ==
    /\ pc[p] = "encode"
    /\ messages' = [messages EXCEPT ![p] =
            << [type |-> "image_url",
                url  |-> <<"data:", get_image_content_type(argv[p].path), ";base64,",
                           "b64">> \o argv[p].path],
               [type |-> "text", text |-> settings[p].query_text] >>]
    /\ pc' = [pc EXCEPT ![p] = "send"]
    /\ UNCHANGED <<file, loaded, config, settings, writes, saved, warned, called,
                   outcome, past, streamVars, inputVars>>

\* process_query: stream = self.send_messages(messages); the request goes out, and
\* the call returns the stream or raises (a transport error)
SendMessages(p) ==
    /\ pc[p] = "send"
    /\ called' = [called EXCEPT ![p] = TRUE]
    /\ \E accepted \in BOOLEAN :
        IF accepted
        THEN pc' = [pc EXCEPT ![p] = "stream"] /\ UNCHANGED outcome
        ELSE Raise(p, "APIError", <<"Connection error.">>)
    /\ UNCHANGED <<file, loaded, config, settings, writes, saved, warned, messages,
                   past, streamVars, inputVars>>

\* mutant of NextChunk: `assistant_content = delta.content` for `+=`
NextChunkOverwrite(p, Deltas, max_chunks) ==
    /\ pc[p] = "stream"
    /\ Len(consumed[p]) < max_chunks
    /\ \E delta \in Deltas :
        /\ consumed' = [consumed EXCEPT ![p] = Append(@, delta)]
        /\ printed' = [printed EXCEPT ![p] =
                         IF Truthy(delta) THEN @ \o Val(delta) ELSE @]
        /\ assistant_content' = [assistant_content EXCEPT ![p] =
                         IF Truthy(delta) THEN Val(delta) ELSE @]
    /\ UNCHANGED <<file, pc, loaded, config, settings, writes, saved, warned, called,
                   outcome, messages, past, inputVars>>

\* process_query: one turn of `for chunk in stream`; delta is chunk.choices[0]
\* .delta.content, None when the chunk carries no text
NextChunk(p, Deltas, max_chunks) ==
    /\ pc[p] = "stream"
    /\ Len(consumed[p]) < max_chunks
    /\ \E delta \in Deltas :
        /\ consumed' = [consumed EXCEPT ![p] = Append(@, delta)]
        /\ printed' = [printed EXCEPT ![p] =
                         IF Truthy(delta) THEN @ \o Val(delta) ELSE @]
        /\ assistant_content' = [assistant_content EXCEPT ![p] =
                         IF Truthy(delta) THEN @ \o Val(delta) ELSE @]
    /\ UNCHANGED <<file, pc, loaded, config, settings, writes, saved, warned, called,
                   outcome, messages, past, inputVars>>

\* process_query: the stream is exhausted; main() returns, exit code 0
StreamEnd(p) ==
    /\ pc[p] = "stream"
    /\ pc' = [pc EXCEPT ![p] = "Done"]
    /\ outcome' = [outcome EXCEPT ![p] = Succeeded]
    /\ UNCHANGED <<file, loaded, config, settings, writes, saved, warned, called,
                   messages, past, streamVars, inputVars>>

\* process_query: the iteration over the stream raises (a transport error)
StreamError(p) ==
    /\ pc[p] = "stream"
    /\ Raise(p, "APIError", <<"Connection error.">>)
    /\ UNCHANGED <<file, loaded, config, settings, writes, saved, warned, called,
                   messages, past, streamVars, inputVars>>

-----------------------------------------------------------------------------
(* Inputs and bounds *)

MaxRuns == 3
MaxChunks == 4
MaxStemLen == 2

NoPng == <<".","/","n","o",".","p","n","g">>
DocumentPdf == <<"d","o","c","u","m","e","n","t",".","p","d","f">>
PhotoJPG == <<"p","h","o","t","o",".","J","P","G">>
ImgPng == <<"i","m","g",".","p","n","g">>

\* command lines: Images are pairs <<path, the path exists>>
Commands(Images, Queries, Models, Urls, Tokens) ==
    { [path |-> im[1], exists |-> im[2], query |-> q, model |-> m, base_url |-> u,
       api_token |-> t] :
      im \in Images, q \in Queries, m \in Models, u \in Urls, t \in Tokens }

\* the query words: none; one empty word; say "hi"; a word with a byte that is
\* not UTF-8
NoWords == <<>>
EmptyWord == << <<>> >>
SayHi == << <<"say">>, <<Quote, "hi", Quote>> >>
BadBytes == << <<"caf", Surrogate>> >>
Describe == << <<"describe">> >>

UrlX == <<"https://x">>
T123 == <<"T123">>
Flash == <<"qwen3-vl-flash">>
Ocr == <<"qwen-vl-ocr-latest">>
EnvKey == <<"sk-env">>

\* a value a key may hold in a config file written by an earlier version or by hand
Old(k) == <<"old ", k>>

KeyOrder == <<"base_url", "api_token", "model_name", "query_text">>

RECURSIVE DictOf(_, _)
\* the dict with the items of f, a function from a set of keys, in KeyOrder from i on
DictOf(f, i) ==
    IF i > Len(KeyOrder) THEN EmptyDict
    ELSE (IF KeyOrder[i] \in DOMAIN f THEN << <<KeyOrder[i], f[KeyOrder[i]]>> >> ELSE <<>>)
         \o DictOf(f, i + 1)

\* config files an earlier run left: any subset of the keys
WrittenFiles == { json_dump(DictOf([k \in K |-> Old(k)], 1)) : K \in SUBSET Keys }

\* config files edited by hand: an empty model name, a key given twice, a literal
\* with a stray quote, a literal with a dangling backslash
EditedFiles ==
    { Object(<< Member("model_name", <<>>), Member("query_text", <<"q">>) >>),
      Object(<< Member("api_token", <<"A">>), Member("base_url", <<"u">>),
                Member("api_token", <<"B">>) >>),
      Object(<< Member("base_url", <<"a", Quote, "b">>) >>),
      Object(<< Member("query_text", <<"a", Backslash>>) >>) }

AnyFile == {Absent, Unreadable, Invalid, NonObject} \cup WrittenFiles \cup EditedFiles

RECURSIVE SeqsUpTo(_, _)
\* the sequences over S of length at most n
SeqsUpTo(S, n) ==
    IF n = 0 THEN {<<>>}
    ELSE LET shorter == SeqsUpTo(S, n - 1)
         IN  shorter \cup {Append(t, x) : t \in shorter, x \in S}

Suffixes ==
    { <<>>,
      <<".","p","n","g">>,
      <<".","j","p","g">>,
      <<".","j","p","e","g">>,
      <<".","b","m","p">>,
      <<".","w","e","b","p">>,
      <<".","t","i","f","f">>,
      <<".","t","i","f">>,
      <<".","P","N","G">>,
      <<".","J","p","g">>,
      <<".","J","P","E","G">>,
      <<".","B","M","P">>,
      <<".","W","e","b","P">>,
      <<".","T","I","F","F">>,
      <<".","t","i","F">>,
      <<".","g","i","f">>,
      <<".","p","d","f">>,
      <<".","t","x","t">>,
      <<"p","n","g">>,
      <<"j","p","g">>,
      <<"t","i","f","f">>,
      <<".","p","n">>,
      <<".","p","n","g","x">>,
      <<".","p","n","g",".">>,
      <<".","p","n","g","/">>,
      <<".","t","i">>,
      <<".","j","p","e">> }

ProbePaths == {stem \o suffix : stem \in SeqsUpTo({"a", "."}, MaxStemLen), suffix \in Suffixes}

-----------------------------------------------------------------------------
(* Specifications *)

\* the history variable: the most recent override of each key; a save has failed;
\* the last run that overrode all four keys and saved, with the file it wrote, while
\* no later run overrode anything; the invocation before the current one saved
\* its overrides and then failed on its image or on the remote call; the
\* invocations that had loaded the config when the file was first opened for writing
NoPast == [latest |-> [k \in Keys |-> None], save_failed |-> FALSE, pinned |-> None,
           prev_failed |-> FALSE, loaded_at_first_write |-> None]

InitWith(P, Files) ==
    /\ file \in Files
    /\ pc = [p \in P |-> "start"]
    /\ argv = [p \in P |-> NoArgs]
    /\ environ = [p \in P |-> None]
    /\ image_exists = [p \in P |-> FALSE]
    /\ loaded = [p \in P |-> PyDict(EmptyDict)]
    /\ config = [p \in P |-> PyDict(EmptyDict)]
    /\ settings = [p \in P |-> NoSettings]
    /\ writes = [p \in P |-> 0]
    /\ saved = [p \in P |-> "no"]
    /\ warned = [p \in P |-> FALSE]
    /\ called = [p \in P |-> FALSE]
    /\ consumed = [p \in P |-> <<>>]
    /\ printed = [p \in P |-> <<>>]
    /\ assistant_content = [p \in P |-> <<>>]
    /\ outcome = [p \in P |-> Running]
    /\ messages = [p \in P |-> <<>>]
    /\ runs = [p \in P |-> 0]
    /\ overlap = FALSE
    /\ past = NoPast

\* the statements of one invocation after its start
Step(p, Deltas, max_chunks) ==
    \/ LoadConfig(p)
    \/ MergeOverrides(p)
    \/ OpenForWrite(p)
    \/ DumpConfig(p)
    \/ ResolveSettings(p)
    \/ NewClient(p)
    \/ ValidateImage(p)
    \/ BuildRequest(p)
    \/ SendMessages(p)
    \/ NextChunk(p, Deltas, max_chunks)
    \/ StreamEnd(p)
    \/ StreamError(p)
    \/ Exit(p)

\* One invocation, any config file, any command line.
SpecCommands ==
    Commands({NoPng, DocumentPdf, PhotoJPG} \X BOOLEAN,
             {NoWords, EmptyWord, SayHi, BadBytes}, {None, Some(Flash)},
             {None, Some(<<>>), Some(UrlX)}, {None, Some(T123)})
AnyEnv == {None, Some(EnvKey)}
FewDeltas == {Some(<<"H", "i">>)}

Init == InitWith({1}, AnyFile)

Next ==
    \/ Invoke(1, SpecCommands, AnyEnv, 1)
    \/ Step(1, FewDeltas, 1)

Spec == Init /\ [][Next]_vars

\* Invocations one after the other, starting without a config file or with an
\* empty one.
RunsCommands ==
    Commands({<<ImgPng, TRUE>>, <<NoPng, FALSE>>, <<DocumentPdf, TRUE>>},
             {NoWords, SayHi, EmptyWord},
             {None, Some(Flash)}, {None, Some(UrlX)}, {None, Some(T123)})
RunsFiles == {Absent, json_dump(EmptyDict)}

InitRuns == InitWith({1}, RunsFiles)

NextRuns ==
    \/ Invoke(1, RunsCommands, AnyEnv, MaxRuns)
    \/ Step(1, FewDeltas, 1)

SpecRuns == InitRuns /\ [][NextRuns]_vars

\* One invocation with the settings fixed, any stream of chunks.
StreamCommands == Commands({PhotoJPG} \X BOOLEAN, {NoWords, Describe}, {None}, {None}, {None})
StreamEnv == {Some(EnvKey)}
AnyDelta == {None, Some(<<>>), Some(<<"H", "e">>), Some(<<"y">>)}
StreamFiles == {Absent}

InitStream == InitWith({1}, StreamFiles)

NextStream ==
    \/ Invoke(1, StreamCommands, StreamEnv, 1)
    \/ Step(1, AnyDelta, MaxChunks)

SpecStream == InitStream /\ [][NextStream]_vars

\* Two invocations at the same time, the first overriding base_url, the second
\* model_name.
RaceFiles == {Absent, Invalid, NonObject,
              json_dump(<< <<"query_text", Old("query_text")>> >>)}
RaceCommands1 == Commands({ImgPng} \X BOOLEAN, {NoWords}, {None}, {Some(UrlX)}, {None})
RaceCommands2 == Commands({ImgPng} \X BOOLEAN, {NoWords}, {Some(Flash)}, {None}, {None})

InitRace == InitWith({1, 2}, RaceFiles)

NextRace ==
    \/ Invoke(1, RaceCommands1, StreamEnv, 1)
    \/ Invoke(2, RaceCommands2, StreamEnv, 1)
    \/ Step(1, FewDeltas, 1)
    \/ Step(2, FewDeltas, 1)

SpecRace == InitRace /\ [][NextRace]_vars

\* validate_image on its own: an invocation without overrides and without a config
\* file has reached process_query with any path.
InitValidate ==
    /\ InitWith({1}, StreamFiles)!1
    /\ pc = [p \in {1} |-> "validate"]
    /\ \E path \in ProbePaths : argv = [p \in {1} |-> [NoArgs EXCEPT !.path = path]]
    /\ environ = [p \in {1} |-> Some(EnvKey)]
    /\ image_exists \in [{1} -> BOOLEAN]
    /\ loaded = [p \in {1} |-> PyDict(EmptyDict)]
    /\ config = [p \in {1} |-> PyDict(EmptyDict)]
    /\ settings = [p \in {1} |-> Resolved(EmptyDict, NoArgs, Some(EnvKey))]
    /\ writes = [p \in {1} |-> 0]
    /\ saved = [p \in {1} |-> "no"]
    /\ warned = [p \in {1} |-> FALSE]
    /\ called = [p \in {1} |-> FALSE]
    /\ consumed = [p \in {1} |-> <<>>]
    /\ printed = [p \in {1} |-> <<>>]
    /\ assistant_content = [p \in {1} |-> <<>>]
    /\ outcome = [p \in {1} |-> Running]
    /\ messages = [p \in {1} |-> <<>>]
    /\ runs = [p \in {1} |-> 1]
    /\ overlap = FALSE
    /\ past = NoPast

NextValidate == ValidateImage(1)

SpecValidate == InitValidate /\ [][NextValidate]_vars

-----------------------------------------------------------------------------
(* Claims *)

\* the invocation has set self.base_url, self.api_token, self.model_name and
\* self.query_text (base_url is never None once it is set)
HasResolved(p) == ~IsNone(settings[p].base_url)

\* the hardcoded default of a key; for api_token the DASHSCOPE_API_KEY lookup
DefaultOf(p, k) ==
    CASE k = "base_url"   -> Some(DEFAULT_BASE_URL)
      [] k = "api_token"  -> environ[p]
      [] k = "model_name" -> Some(DEFAULT_MODEL_NAME)
      [] k = "query_text" -> Some(DEFAULT_QUERY_TEXT)

\* the keys of a dict and the value it holds under a key, read off its items
Present(items, k) == \E i \in 1..Len(items) : items[i][1] = k
Stored(items, k) == items[CHOOSE i \in 1..Len(items) : items[i][1] = k][2]

\* override, else persisted value, else default
Precedence(p, k) ==
    IF ~IsNone(Override(argv[p], k)) THEN Override(argv[p], k)
    ELSE IF Present(loaded[p].items, k) THEN Some(Stored(loaded[p].items, k))
    ELSE DefaultOf(p, k)

\* C1: the value a run resolves for a key is its non-null override, otherwise the
\* value the loaded config holds under the key, otherwise the hardcoded default
\* (the DASHSCOPE_API_KEY lookup for api_token).
C1_Precedence ==
    \A p \in Procs : HasResolved(p) =>
        \A k \in Keys : settings[p][k] = Precedence(p, k)

\* a run that took base_url from its override (the empty string) over the default,
\* api_token from the environment, model_name (empty) from the config file over
\* the default, and query_text from its override over the config file
C1_Witness ==
    /\ HasResolved(1)
    /\ argv[1].base_url = Some(<<>>) /\ settings[1].base_url = Some(<<>>)
    /\ IsNone(argv[1].api_token) /\ ~Present(loaded[1].items, "api_token")
    /\ settings[1].api_token = Some(EnvKey)
    /\ IsNone(argv[1].model) /\ Present(loaded[1].items, "model_name")
    /\ settings[1].model_name = Some(<<>>)
    /\ ~IsNone(argv[1].query) /\ Present(loaded[1].items, "query_text")
    /\ settings[1].query_text = Some(<<"say", " ", Quote, "hi", Quote>>)

\* C2: a run whose four overrides are all null never changes the config file: no
\* step taken while every invocation is without overrides changes it.
C2_NoOverrideNoChange ==
    [][(\A p \in Procs : ~HasOverride(argv'[p])) => file' = file]_vars

\* a run without overrides has ended, and the file still holds the key it was
\* given twice by hand (a save would have written it once)
C2_Witness ==
    /\ pc[1] = "Done"
    /\ ~HasOverride(argv[1])
    /\ file.kind = "object" /\ Len(file.members) = 3

\* the exceptions that come from reading, merging into or writing the config
ConfigErrors == {"TypeError", "AttributeError", "UnicodeEncodeError"}

\* C3: no failure of reading or writing the config file ends a run: whatever the
\* file holds and however the save goes, the run never ends Failed with an
\* exception that comes from the config.
C3_ConfigNeverFatal ==
    \A p \in Procs : pc[p] = "Failed" => outcome[p].exc \notin ConfigErrors

\* C6: a run whose image fails validation ends with exit code 1 in the failure of
\* that cause, with the message main prints for it, and never calls the remote API.
C6_ValidationFailure ==
    \A p \in Procs :
        LET r == validate_image(argv[p].path, image_exists[p]) IN
        (Terminated(p) /\ r # NoError) =>
            /\ outcome[p].exit_code = Some(1)
            /\ outcome[p].exc = r.exc
            /\ outcome[p].line = <<"Error: ">> \o r.msg
            /\ ~called[p]

\* the extension of a path: the text after its last dot, None without a dot
HasDot(path) == \E i \in 1..Len(path) : path[i] = "."
LastDot(path) == CHOOSE i \in 1..Len(path) :
                    path[i] = "." /\ \A j \in (i + 1)..Len(path) : path[j] # "."
Extension(path) ==
    IF HasDot(path) THEN Some(SubSeq(path, LastDot(path) + 1, Len(path))) ELSE None

AllowList == { <<"p","n","g">>, <<"j","p","g">>, <<"j","p","e","g">>, <<"b","m","p">>,
               <<"w","e","b","p">>, <<"t","i","f","f">>, <<"t","i","f">> }

Allowed(path) == ~IsNone(Extension(path)) /\ lower(Val(Extension(path))) \in AllowList

\* C5: validate fails with NotFoundError (FileNotFoundError) when the file does not
\* exist, with UnsupportedFormatError (ValueError) when it exists and its extension,
\* compared without regard to case, is not in the allow-list or is missing, and
\* succeeds otherwise; in each case it changes nothing but the run's position.
C5_Validate ==
    [][\A p \in Procs : pc[p] = "validate" /\ pc'[p] # "validate" =>
          /\ ~image_exists[p] =>
                /\ pc'[p] = "Failed" /\ outcome'[p].exc = "FileNotFoundError"
                /\ outcome'[p].line = <<"Error: ">> \o argv[p].path \o <<" does not exist.">>
          /\ image_exists[p] /\ ~Allowed(argv[p].path) =>
                pc'[p] = "Failed" /\ outcome'[p].exc = "ValueError"
          /\ image_exists[p] /\ Allowed(argv[p].path) =>
                pc'[p] = "encode" /\ outcome'[p] = outcome[p]
          /\ UNCHANGED <<file, argv, environ, image_exists, loaded, config, settings,
                         writes, saved, warned, called, consumed, printed,
                         assistant_content, messages>>
      ]_vars

\* an existing a.PNG passed validation
C5_Witness ==
    /\ pc[1] = "encode"
    /\ argv[1].path = <<"a", ".", "P", "N", "G">>
    /\ image_exists[1]

RECURSIVE NonEmptyDeltas(_)
\* the concatenation, in order, of the non-empty text deltas of the chunks
NonEmptyDeltas(chunks) ==
    IF chunks = <<>> THEN <<>>
    ELSE (IF IsNone(Head(chunks)) THEN <<>> ELSE Val(Head(chunks)))
         \o NonEmptyDeltas(Tail(chunks))

\* C7: at every moment of the streaming, and when the stream ends or breaks, the
\* text printed equals the accumulator and both equal the concatenation, in
\* arrival order, of the non-empty deltas of the chunks consumed so far.
C7_Accumulation ==
    \A p \in Procs :
        /\ printed[p] = assistant_content[p]
        /\ printed[p] = NonEmptyDeltas(consumed[p])

\* a transport error broke the stream after a chunk without delta, a chunk with an
\* empty delta and two chunks with text
C7_Witness ==
    /\ pc[1] = "Failed" /\ outcome[1].exc = "APIError"
    /\ consumed[1] = <<Some(<<"H", "e">>), None, Some(<<>>), Some(<<"y">>)>>
    /\ printed[1] = <<"H", "e", "y">>

\* the config file is a JSON object that holds the string v under the key k
FileHolds(f, k, v) ==
    /\ f.kind = "object"
    /\ \E i \in 1..Len(f.members) :
          f.members[i].key = k /\ Unescape(f.members[i].lit) = Some(v)

\* the keys stored in the config file
StoredKeys(f) ==
    IF f.kind = "object" THEN {f.members[i].key : i \in 1..Len(f.members)} ELSE {}

\* C4: after a run that overrode all four keys and saved, the config file holds
\* those four values; every later run without overrides loads them, resolves
\* exactly them and leaves the file as that run wrote it.
C4_Reuse ==
    ~IsNone(past.pinned) =>
        LET pin == Val(past.pinned) IN
        /\ file = pin.file
        /\ StoredKeys(file) = Keys
        /\ \A k \in Keys : FileHolds(file, k, Val(Override(pin.args, k)))
        /\ \A p \in Procs : ~HasOverride(argv[p]) =>
              /\ pc[p] \notin {"start", "load"} =>
                    /\ loaded[p].type = "dict"
                    /\ \A k \in Keys :
                          /\ Present(loaded[p].items, k)
                          /\ Stored(loaded[p].items, k) = Val(Override(pin.args, k))
              /\ HasResolved(p) =>
                    \A k \in Keys : settings[p][k] = Override(pin.args, k)

\* the second run without overrides after a run that gave all four, among them
\* the query say "hi", has ended and used that query
C4_Witness ==
    /\ ~IsNone(past.pinned)
    /\ runs[1] = 3 /\ pc[1] = "Done"
    /\ ~HasOverride(argv[1])
    /\ settings[1].query_text = Some(<<"say", " ", Quote, "hi", Quote>>)
    /\ settings[1].api_token = Some(T123)

\* C8 as stated: between runs, the keys stored in the config file are exactly the
\* keys some run overrode, each with its most recent override.
C8_StoredAreExactlyOverridden ==
    (\A p \in Procs : ~Active(p)) =>
        \A k \in Keys :
            /\ k \in StoredKeys(file) <=> ~IsNone(past.latest[k])
            /\ ~IsNone(past.latest[k]) => FileHolds(file, k, Val(past.latest[k]))

\* C8, amended: defaults are never written: a key stored in the config file is
\* always one that some run overrode, and a key no run overrode is resolved from
\* its default (the environment for api_token) in every run; as long as no save
\* has failed, the keys stored between runs are exactly the overridden keys, each
\* with its most recent override.
C8_DefaultsNeverWritten ==
    /\ \A k \in StoredKeys(file) : ~IsNone(past.latest[k])
    /\ \A p \in Procs : HasResolved(p) =>
          \A k \in Keys : IsNone(past.latest[k]) => settings[p][k] = DefaultOf(p, k)
    /\ (~past.save_failed /\ \A p \in Procs : ~Active(p)) =>
          \A k \in Keys :
              /\ k \in StoredKeys(file) <=> ~IsNone(past.latest[k])
              /\ ~IsNone(past.latest[k]) => FileHolds(file, k, Val(past.latest[k]))

\* the second run has ended; it overrode the query, the first run had overridden
\* the model: the file holds these two keys, base_url and api_token came from the
\* default and the environment
C8_Witness ==
    /\ pc[1] = "Done" /\ runs[1] = 2 /\ ~past.save_failed
    /\ IsNone(argv[1].model) /\ argv[1].query = Some(<<>>)
    /\ StoredKeys(file) = {"model_name", "query_text"}
    /\ FileHolds(file, "query_text", <<>>)
    /\ settings[1].base_url = Some(DEFAULT_BASE_URL)
    /\ settings[1].api_token = Some(EnvKey)

\* C9: two invocations that override different keys and both save leave both
\* overrides in the file whenever they run one after the other; run at the same
\* time they can lose one (the witness).
C9_SequentialKeepsBoth ==
    (/\ ~overlap
     /\ Terminated(1) /\ Terminated(2)
     /\ saved[1] = "ok" /\ saved[2] = "ok") =>
        /\ FileHolds(file, "base_url", UrlX)
        /\ FileHolds(file, "model_name", Flash)

\* both invocations had loaded the config before either opened it for writing,
\* both saved, and the file lacks the base_url the first one wrote
C9_LostUpdate ==
    /\ Terminated(1) /\ Terminated(2)
    /\ saved[1] = "ok" /\ saved[2] = "ok"
    /\ past.loaded_at_first_write = Some({1, 2})
    /\ file.kind = "object"
    /\ "base_url" \notin StoredKeys(file)
    /\ FileHolds(file, "model_name", Flash)

\* the positions from the validation of the image on
ValidationStarted(p) == pc[p] \in {"validate", "encode", "send", "stream", "Done", "Failed"}

\* C10 as stated: a run that gave an override and ended Failed on its image or on
\* the remote call has written the merged settings to the config file.
C10_FailedRunWrote ==
    \A p \in Procs :
        (/\ pc[p] = "Failed"
         /\ HasOverride(argv[p])
         /\ outcome[p].exc \in {"FileNotFoundError", "ValueError", "APIError"}) =>
            file = json_dump(Merged(loaded[p].items, argv[p]))

\* C10, amended: the merge and the save come before the validation of the image: a
\* run that gave an override has called save_config by the time the validation
\* starts, and unless that save failed the file holds the merged settings, also
\* when the run then fails; the file is opened for writing at most once per run and
\* never changes after the validation has started; while no save has failed, a
\* later run resolves each key to the most recent override, a failed run's included.
C10_SaveBeforeValidate ==
    [][\A p \in Procs :
          /\ writes'[p] <= 1
          /\ ValidationStarted(p) => file' = file
          /\ (ValidationStarted(p)' /\ HasOverride(argv'[p])) =>
                /\ saved'[p] # "no"
                /\ saved'[p] = "ok" =>
                      file' = json_dump(Merged(loaded'[p].items, argv'[p]))
          /\ (~past'.save_failed /\ HasResolved(p)') =>
                \A k \in Keys :
                    ~IsNone(past'.latest[k]) => settings'[p][k] = past'.latest[k]
      ]_vars

\* a run without overrides uses the base_url that the run before it saved before
\* failing on its image or on the remote call
C10_Witness ==
    /\ past.prev_failed /\ ~past.save_failed
    /\ ~HasOverride(argv[1])
    /\ HasResolved(1)
    /\ settings[1].base_url = Some(UrlX)

====
